---- MODULE Spec2Model ----
(***************************************************************************)
(* Model of the REPL session controller (useReplContext) of birder:        *)
(* src/packages/codemirror/themes/strudel-theme.mjs, lines 79-331.         *)
(*                                                                         *)
(* The controller runs on the browser's single event loop.  Every action   *)
(* below is one run-to-completion piece of a handler or callback: from its *)
(* call (or from the settling of the promise it awaits) up to its next     *)
(* await or its return.                                                    *)
(*                                                                         *)
(* Init is the state after the component has mounted and init() has run:   *)
(* the editor is constructed, editorRef.current is set, the module-scope   *)
(* promises audioReady and modulesLoading exist and are still pending.     *)
(***************************************************************************)
EXTENDS Integers, Sequences, FiniteSets

(***************************************************************************)
(* Bounds of the model.                                                    *)
(***************************************************************************)
\* user pattern ids createPatternID can still hand out
MaxPatterns == 2
\* handler invocations (handleUpdate, handleShuffle) in one run
MaxTasks == 1
\* evaluations in flight at the same time
MaxEvals == 1
\* on-toggle notifications with playing = false in one run
MaxToggles == 2

(***************************************************************************)
(* Pattern documents.  An id is an integer: NoID is the empty id '' (the   *)
(* one id userPattern.isValidID rejects), the built-in examples have the   *)
(* negative ids, createPatternID hands out 1, 2, ...                       *)
(***************************************************************************)
NoID == 0

UserCollection == "user"

ExampleCollection == "examples"

Codes == {"a", "b"}

\* the built-in documents getRandomTune draws from
Examples ==
  { [id |-> -1, code |-> "a", collection |-> ExampleCollection],
    [id |-> -2, code |-> "b", collection |-> ExampleCollection] }

\* the viewing pattern data before any document has been opened
BlankPattern == [id |-> NoID, code |-> "", collection |-> UserCollection]

\* the empty object {} of useState({}), line 253
EmptyState == [f \in {} |-> FALSE]

StateFields == {"started", "isDirty"}

\* the notifications the editor can pass to onUpdateState: any subset of the
\* fields, any values
Notifications == UNION { [D -> BOOLEAN] : D \in SUBSET StateFields }

\* the keys of defaultSettings, line 258
DefaultSettingsKeys == {"fontSize", "theme"}

\* the keys the settings store can hold: the recognized ones and a foreign one
SettingsKeys == DefaultSettingsKeys \cup {"audioEngineTarget"}

SettingsValues == {"x", "y"}

SettingsObjects == UNION { [D -> SettingsValues] : D \in SUBSET SettingsKeys }

VARIABLES
  viewingPatternData,  \* $viewingPatternData: get/setViewingPatternData
  activePattern,       \* $activePattern: setActivePattern
  userPatterns,        \* the user collection: id -> document
  nextID,              \* the next id createPatternID returns
  editorCode,          \* the text in the editor (setCode, typing)
  replState,           \* useState({}), line 253
  lastNotification,    \* history: <<state>> of the last onUpdateState call
  settingsStore,       \* _settings, line 258
  forwarded,           \* <<object>> of the last updateSettings call
  audioReady,          \* the audioReady promise has resolved
  modulesLoading,      \* the modulesLoading promise: pending/fulfilled/rejected
  tasks,               \* the handleUpdate / handleShuffle invocations so far
  evals,               \* evaluations in flight: [code, by]
  clearHydraCalls,     \* number of clearHydra() calls so far
  stoppedToggles,      \* history: onToggle(false) notifications so far
  last,                \* history: the action that led to this state
  audioEngineTarget,   \* useSettings().audioEngineTarget, line 103
  isSyncEnabled,       \* useSettings().isSyncEnabled, line 103
  editorOptions,       \* <<options>> of the StrudelMirror constructed, line 111
  headerProps,         \* what Header renders from: context and settings
  rendered,            \* what Header has rendered
  prevReplState,       \* history: replState before the onUpdateState that
                       \* led to this state, empty after any other step
  effectLog            \* history: the calls of the afterEval that led to this
                       \* state, in order, empty after any other step

vars ==
  << viewingPatternData, activePattern, userPatterns, nextID, editorCode,
     replState, lastNotification, settingsStore, forwarded, audioReady,
     modulesLoading, tasks, evals, clearHydraCalls, stoppedToggles, last,
     audioEngineTarget, isSyncEnabled, editorOptions, headerProps, rendered,
     prevReplState, effectLog >>

docVars == << viewingPatternData, activePattern, userPatterns, nextID >>

viewVars == << replState, lastNotification, settingsStore, forwarded >>

envVars == << audioReady, modulesLoading >>

toggleVars == << clearHydraCalls, stoppedToggles >>

ctorVars == << audioEngineTarget, isSyncEnabled, editorOptions >>

headerVars == << headerProps, rendered >>

(***************************************************************************)
(* Construction, lines 102-124.                                            *)
(***************************************************************************)
\* audioEngineTargets, the values of the audio-engine target setting
audioEngineTargets == {"webaudio", "osc"}

\* line 104
shouldUseWebaudio(target) == target # "osc"

\* line 105
defaultOutput(target) ==
  IF shouldUseWebaudio(target) THEN "webaudioOutput" ELSE "superdirtOutput"

\* line 106 with the branches exchanged
getTimeExchanged(target) ==
  IF shouldUseWebaudio(target) THEN "getPerformanceTimeSeconds"
                               ELSE "getAudioContextCurrentTime"

\* line 106
getTime(target) ==
  IF shouldUseWebaudio(target) THEN "getAudioContextCurrentTime"
                               ELSE "getPerformanceTimeSeconds"

\* lines 111-114: the options init() passes to new StrudelMirror that depend
\* on the settings
StrudelMirrorOptions(sync, target) ==
  [sync |-> sync, defaultOutput |-> defaultOutput(target), getTime |-> getTime(target)]

(***************************************************************************)
(* The toolbar, Header.jsx.  An undefined field of the session state acts  *)
(* as false under &&, ! and ?:, and as the empty string for activeCode.    *)
(***************************************************************************)
\* Header.jsx lines 8-20: the context fields and settings Header reads
HeaderProps ==
  [started : BOOLEAN, pending : BOOLEAN, isDirty : BOOLEAN, activeCode : {"", "a"},
   isEmbedded : BOOLEAN, isZen : BOOLEAN, isButtonRowHidden : BOOLEAN,
   isCSSAnimationDisabled : BOOLEAN]

\* what Header reads before the editor has reported any state
BlankProps ==
  [started |-> FALSE, pending |-> FALSE, isDirty |-> FALSE, activeCode |-> "",
   isEmbedded |-> FALSE, isZen |-> FALSE, isButtonRowHidden |-> FALSE,
   isCSSAnimationDisabled |-> FALSE]

\* Header.jsx line 46 without the animation setting
spinningWhenStarted(p) == p.started

\* Header.jsx line 46: the logo carries animate-spin
spinning(p) == p.started /\ ~p.isCSSAnimationDisabled

\* Header.jsx line 66: the button row is rendered
buttonRow(p) == ~p.isZen /\ ~p.isButtonRowHidden

\* Header.jsx lines 68-85: the play/stop button
playButton(p) ==
  [title |-> IF p.started THEN "stop" ELSE "play",
   icon  |-> IF ~p.pending THEN (IF p.started THEN "stop" ELSE "play") ELSE "none",
   text  |-> IF ~p.pending
             THEN (IF ~p.isEmbedded THEN (IF p.started THEN "stop" ELSE "play") ELSE "")
             ELSE "loading..."]

\* Header.jsx lines 87-97: the update button
updateButton(p) ==
  [title |-> "update",
   dimmed |-> ~p.isDirty \/ p.activeCode = "",
   text |-> IF ~p.isEmbedded THEN "update" ELSE ""]

\* Header.jsx lines 22-99: what Header renders from p
Header(p) ==
  [spin |-> spinning(p),
   play |-> IF buttonRow(p) THEN << playButton(p) >> ELSE << >>,
   update |-> IF buttonRow(p) THEN << updateButton(p) >> ELSE << >>]

(***************************************************************************)
(* The document store (user_pattern_utils.mjs), as the controller uses it. *)
(***************************************************************************)
\* userPattern.isValidID(id)
isValidID(id) == id # NoID

\* createPatternID(): an id no document has had
createPatternID(nid) == nid

\* userPattern.update(id, data): stores data under id in the user collection
\* and returns the stored data
updateData(id, data) ==
  [id |-> id, code |-> data.code, collection |-> UserCollection]

updateStore(ups, id, data) ==
  [k \in DOMAIN ups \cup {id} |-> IF k = id THEN updateData(id, data) ELSE ups[k]]

\* userPattern.duplicate(data): a new document, under a new id, with data's code
duplicateData(nid, data) == updateData(createPatternID(nid), data)

\* the record kept in last; by = 0 when no handler invocation is involved
Step(op, code, by, before, patternsBefore) ==
  [op |-> op, code |-> code, by |-> by, before |-> before,
   patternsBefore |-> patternsBefore]

NoPatterns == [i \in {} |-> BlankPattern]

Did(op) == Step(op, "", 0, BlankPattern, NoPatterns)

Other == Did("other")

\* lines 80-92 and 253-256: the module-scope promises pending, nothing
\* viewed, stored, reported or evaluated yet
InitState ==
  /\ viewingPatternData = BlankPattern
  /\ activePattern = NoID
  /\ userPatterns = NoPatterns
  /\ nextID = 1
  /\ editorCode = "a"
  /\ replState = EmptyState
  /\ lastNotification = << >>
  /\ settingsStore = [k \in DefaultSettingsKeys |-> "x"]
  /\ forwarded = << >>
  /\ audioReady = FALSE
  /\ modulesLoading = "pending"
  /\ tasks = << >>
  /\ evals = << >>
  /\ clearHydraCalls = 0
  /\ stoppedToggles = 0
  /\ last = Did("init")
  /\ prevReplState = EmptyState
  /\ effectLog = << >>

\* lines 108-124, 250: init() has run, with the default settings
Constructed ==
  /\ audioEngineTarget = "webaudio"
  /\ isSyncEnabled = FALSE
  /\ editorOptions = << StrudelMirrorOptions(isSyncEnabled, audioEngineTarget) >>

\* Header has rendered the empty session state under the default settings
FirstRender ==
  /\ headerProps = BlankProps
  /\ rendered = Header(headerProps)

\* the controller with its editor constructed
Init == InitState /\ Constructed /\ FirstRender

\* the controller before init() is called, under any settings
InitConstruct ==
  /\ InitState
  /\ audioEngineTarget \in audioEngineTargets
  /\ isSyncEnabled \in BOOLEAN
  /\ editorOptions = << >>
  /\ FirstRender

\* the first rendering of Header, under any settings
InitHeader ==
  /\ InitState
  /\ Constructed
  /\ headerProps \in { p \in HeaderProps : /\ ~p.started /\ ~p.pending
                                          /\ ~p.isDirty /\ p.activeCode = "" }
  /\ rendered = Header(headerProps)

(***************************************************************************)
(* Handler invocations.  A task is one call of handleUpdate or of          *)
(* handleShuffle; it stays in tasks after it has settled.                  *)
(*   pc: awaitTune        line 302, awaiting getRandomTune()               *)
(*       awaitModules     line 279 (line 98), awaiting modulesLoading      *)
(*       awaitPrebake     line 285, awaiting prebake()                     *)
(*       done             the handler's promise has resolved               *)
(*       rejectedModules  rejected by the await of line 279                *)
(*       rejectedPrebake  rejected by the await of line 285                *)
(*   invoked: the calls of lines 280-285 made so far for this task         *)
(*   evaluated: the evaluations this task has started                      *)
(*   clean: (of a shuffle) no other handler, evaluation or edit has run    *)
(*          between its call and the end of its evaluation                 *)
(***************************************************************************)
Task(kind, pc, patternData, reset) ==
  [kind |-> kind, pc |-> pc, patternData |-> patternData, reset |-> reset,
   invoked |-> {}, evaluated |-> 0, clean |-> TRUE]

\* a shuffle whose evaluation has not yet come to its end
Live(t, es, j) ==
  /\ t.kind = "shuffle"
  /\ \/ t.pc \in {"awaitTune", "awaitModules", "awaitPrebake"}
     \/ \E k \in DOMAIN es : es[k].by = j

\* every live shuffle but task i has seen another action run
Touch(ts, i) ==
  [j \in DOMAIN ts |->
     IF j # i /\ Live(ts[j], evals, j) THEN [ts[j] EXCEPT !.clean = FALSE] ELSE ts[j]]

\* a step that is neither onUpdateState nor afterEval
NoHistory ==
  /\ prevReplState' = EmptyState
  /\ effectLog' = << >>

RemoveAt(s, k) == [j \in 1..(Len(s) - 1) |-> IF j < k THEN s[j] ELSE s[j + 1]]

(***************************************************************************)
(* The environment: the promises of lines 83 and 88 settle.                *)
(***************************************************************************)
\* initAudioOnFirstClick: the first click unlocks audio output
AudioUnlock ==
  /\ ~audioReady
  /\ audioReady' = TRUE
  /\ last' = Other
  /\ NoHistory /\ UNCHANGED << ctorVars, headerVars >>
  /\ UNCHANGED << docVars, viewVars, toggleVars, editorCode, modulesLoading,
                  tasks, evals >>

\* loadModules() fulfils or rejects
ModulesSettle ==
  /\ modulesLoading = "pending"
  /\ modulesLoading' \in {"fulfilled", "rejected"}
  /\ last' = Other
  /\ NoHistory /\ UNCHANGED << ctorVars, headerVars >>
  /\ UNCHANGED << docVars, viewVars, toggleVars, editorCode, audioReady,
                  tasks, evals >>

\* the user types in the editor
EditCode ==
  /\ \E c \in Codes :
       /\ c # editorCode
       /\ editorCode' = c
  /\ tasks' = Touch(tasks, 0)
  /\ last' = Other
  /\ NoHistory /\ UNCHANGED << ctorVars, headerVars >>
  /\ UNCHANGED << docVars, viewVars, toggleVars, envVars, evals >>

(***************************************************************************)
(* Lifecycle hooks, lines 125-159.                                         *)
(***************************************************************************)
\* line 133 returning nothing: an evaluation does not wait for audio
beforeEvalUngated == TRUE

\* line 133: beforeEval returns the audioReady promise; it has resolved when
\* that promise has
beforeEval == audioReady

\* line 145 taking every document for a user document
isExamplePatternNever(vp) == FALSE

\* line 145
isExamplePattern(vp) == vp.collection # UserCollection

\* line 148 without the comparison: the code never counts as changed
codeNeverChanged(code, vp) == FALSE

\* line 148 without the comparison: the code always counts as changed
codeAlwaysChanged(code, vp) == TRUE

\* line 148
codeHasChanged(code, vp) == code # vp.code

\* line 155 without the isValidID test: always a fresh id
afterEvalFreshID(id, nid) == createPatternID(nid)

\* line 155
afterEvalID(id, nid) == IF isValidID(id) THEN id ELSE createPatternID(nid)

\* lines 141-158 without line 151: the fork leaves id as the example's id
afterEvalResultStaleID(vp, ups, nid, code) ==
  LET data == [vp EXCEPT !.code = code]
  IN  IF isExamplePattern(vp)
      THEN IF codeHasChanged(code, vp)
           THEN LET newPattern == duplicateData(nid, data)
                IN  [viewing |-> newPattern,
                     patterns |-> updateStore(ups, newPattern.id, data),
                     nextID |-> nid + 1,
                     active |-> data.id]
           ELSE [viewing |-> vp, patterns |-> ups, nextID |-> nid,
                 active |-> data.id]
      ELSE LET id == afterEvalID(data.id, nid)
           IN  [viewing |-> updateData(id, data),
                patterns |-> updateStore(ups, id, data),
                nextID |-> IF id = createPatternID(nid) THEN nid + 1 ELSE nid,
                active |-> id]

\* lines 141-158: the viewed data, the user collection, the id counter and the
\* active pattern after afterEval({code})
afterEvalResult(vp, ups, nid, code) ==
  LET data == [vp EXCEPT !.code = code]
  IN  IF isExamplePattern(vp)
      THEN IF codeHasChanged(code, vp)
           THEN LET newPattern == duplicateData(nid, data)
                IN  [viewing |-> newPattern,
                     patterns |-> updateStore(ups, newPattern.id, data),
                     nextID |-> nid + 1,
                     active |-> newPattern.id]
           ELSE [viewing |-> vp, patterns |-> ups, nextID |-> nid,
                 active |-> data.id]
      ELSE LET id == afterEvalID(data.id, nid)
           IN  [viewing |-> updateData(id, data),
                patterns |-> updateStore(ups, id, data),
                nextID |-> IF id = createPatternID(nid) THEN nid + 1 ELSE nid,
                active |-> id]

\* lines 134-158 with setActivePattern moved before the decision of line 147
afterEvalCallsActiveFirst(vp, code) ==
  << "postMessage", "setLatestCode", "setLocationHash", "setDocumentTitle",
     "setVersionDefaultsFrom", "setActivePattern" >>
  \o (IF isExamplePattern(vp)
      THEN IF codeHasChanged(code, vp)
           THEN << "duplicate", "setViewingPatternData" >>
           ELSE << >>
      ELSE << "update", "setViewingPatternData" >>)

\* lines 134-158: the calls afterEval({code}) makes, in order
afterEvalCalls(vp, code) ==
  << "postMessage", "setLatestCode", "setLocationHash", "setDocumentTitle",
     "setVersionDefaultsFrom" >>
  \o (IF isExamplePattern(vp)
      THEN IF codeHasChanged(code, vp)
           THEN << "duplicate", "setViewingPatternData" >>
           ELSE << >>
      ELSE << "update", "setViewingPatternData" >>)
  \o << "setActivePattern" >>

\* an evaluation in flight passes beforeEval, runs the code and calls afterEval
afterEval ==
  \E k \in 1..Len(evals) :
    LET e == evals[k]
        r == afterEvalResult(viewingPatternData, userPatterns, nextID, e.code)
    IN  /\ beforeEval
        /\ r.nextID <= MaxPatterns + 1
        /\ viewingPatternData' = r.viewing
        /\ userPatterns' = r.patterns
        /\ nextID' = r.nextID
        /\ activePattern' = r.active
        /\ evals' = RemoveAt(evals, k)
        /\ tasks' = Touch(tasks, e.by)
        /\ last' = Step("afterEval", e.code, e.by, viewingPatternData, userPatterns)
        /\ effectLog' = afterEvalCalls(viewingPatternData, e.code)
        /\ prevReplState' = EmptyState
        /\ UNCHANGED << ctorVars, headerVars >>
        /\ UNCHANGED << viewVars, toggleVars, envVars, editorCode >>

\* an evaluation in flight passes beforeEval and the code throws: the editor
\* reports the error, afterEval is not called
EvalError ==
  \E k \in 1..Len(evals) :
    /\ beforeEval
    /\ evals' = RemoveAt(evals, k)
    /\ tasks' = Touch(tasks, evals[k].by)
    /\ last' = Did("evalError")
    /\ NoHistory /\ UNCHANGED << ctorVars, headerVars >>
    /\ UNCHANGED << docVars, viewVars, toggleVars, envVars, editorCode >>

\* lines 128-132 without the test of line 129
onToggleClearsAlways(playing) == 1

\* lines 128-132: the number of clearHydra() calls onToggle(playing) makes
onToggleClears(playing) == IF ~playing THEN 1 ELSE 0

onToggle ==
  \E playing \in BOOLEAN :
    /\ stoppedToggles + (IF playing THEN 0 ELSE 1) <= MaxToggles
    /\ clearHydraCalls' = clearHydraCalls + onToggleClears(playing)
    /\ stoppedToggles' = stoppedToggles + (IF playing THEN 0 ELSE 1)
    /\ last' = Did(IF playing THEN "onTogglePlaying" ELSE "onToggleStopped")
    /\ NoHistory /\ UNCHANGED << ctorVars, headerVars >>
    /\ UNCHANGED << docVars, viewVars, envVars, editorCode, tasks, evals >>

\* line 126 merging into the previous state, setReplState({ ...prev, ...state })
mergeReplState(prev, state) ==
  [k \in DOMAIN prev \cup DOMAIN state |->
     IF k \in DOMAIN state THEN state[k] ELSE prev[k]]

\* line 126 spreading the previous state over the notification,
\* setReplState({ ...state, ...prev })
keepReplState(prev, state) ==
  [k \in DOMAIN prev \cup DOMAIN state |->
     IF k \in DOMAIN prev THEN prev[k] ELSE state[k]]

\* line 126: the state setReplState({ ...state }) leaves in place of prev
setReplState(prev, state) == state

\* lines 125-127: the editor reports a state change
onUpdateState ==
  \E state \in Notifications :
    /\ replState' = setReplState(replState, state)
    /\ lastNotification' = << state >>
    /\ prevReplState' = replState
    /\ last' = Other
    /\ effectLog' = << >>
    /\ UNCHANGED << ctorVars, headerVars >>
    /\ UNCHANGED << docVars, toggleVars, envVars, settingsStore, forwarded,
                    editorCode, tasks, evals >>

\* lines 260-265 without the filter: every observed key is forwarded
editorSettingsUnfiltered(observed) == observed

\* lines 260-265: the object built from the observed settings
editorSettings(observed) ==
  [key \in { k \in DefaultSettingsKeys : k \in DOMAIN observed } |-> observed[key]]

\* lines 258-267: the settings store changes and the effect forwards the
\* recognized settings to the editor
settingsEffect ==
  \E observed \in SettingsObjects :
    /\ observed # settingsStore
    /\ settingsStore' = observed
    /\ forwarded' = IF editorOptions # << >>
                    THEN << editorSettings(observed) >>
                    ELSE forwarded
    /\ last' = Other
    /\ NoHistory /\ UNCHANGED << ctorVars, headerVars >>
    /\ UNCHANGED << docVars, toggleVars, envVars, replState, lastNotification,
                    editorCode, tasks, evals >>

\* lines 274-276 setting the play state itself instead of waiting for the
\* editor's notification
handleTogglePlayOptimistic ==
  /\ replState' = mergeReplState(replState, [f \in {"started"} |-> TRUE])
  /\ last' = Did("handleTogglePlay")
  /\ NoHistory /\ UNCHANGED << ctorVars, headerVars >>
  /\ UNCHANGED << docVars, lastNotification, settingsStore, forwarded, toggleVars,
                  envVars, editorCode, tasks, evals >>

\* lines 274-276: editor.toggle(); the editor answers with onToggle and
\* onUpdateState notifications of its own
handleTogglePlay ==
  /\ last' = Did("handleTogglePlay")
  /\ NoHistory /\ UNCHANGED << ctorVars, headerVars >>
  /\ UNCHANGED << docVars, viewVars, toggleVars, envVars, editorCode, tasks,
                  evals >>

(***************************************************************************)
(* Imperative actions, lines 274-310.                                      *)
(***************************************************************************)
\* lines 297-299: editor.evaluate() evaluates the editor's code
handleEvaluate ==
  /\ Len(evals) < MaxEvals
  /\ evals' = Append(evals, [code |-> editorCode, by |-> 0])
  /\ tasks' = Touch(tasks, 0)
  /\ last' = Other
  /\ NoHistory /\ UNCHANGED << ctorVars, headerVars >>
  /\ UNCHANGED << docVars, viewVars, toggleVars, envVars, editorCode >>

\* line 291 without the test: every update resets and evaluates
alwaysReset(reset) == TRUE

\* line 291
shouldReset(reset) == reset

\* lines 288-292 with a setActivePattern(patternData.id) added
handleUpdateSetsActive ==
  \E patternData \in Examples \cup { userPatterns[i] : i \in DOMAIN userPatterns },
     reset \in BOOLEAN :
    /\ Len(tasks) < MaxTasks
    /\ viewingPatternData' = patternData
    /\ activePattern' = patternData.id
    /\ editorCode' = patternData.code
    /\ tasks' = Append(Touch(tasks, 0),
                       Task("update",
                            IF shouldReset(reset) THEN "awaitModules" ELSE "done",
                            patternData, reset))
    /\ last' = Did("handleUpdate")
    /\ NoHistory /\ UNCHANGED << ctorVars, headerVars >>
    /\ UNCHANGED << userPatterns, nextID, viewVars, toggleVars, envVars, evals >>

\* lines 288-292, up to the await of line 279
handleUpdate ==
  \E patternData \in Examples \cup { userPatterns[i] : i \in DOMAIN userPatterns },
     reset \in BOOLEAN :
    /\ Len(tasks) < MaxTasks
    /\ viewingPatternData' = patternData
    /\ editorCode' = patternData.code
    /\ tasks' = Append(Touch(tasks, 0),
                       Task("update",
                            IF shouldReset(reset) THEN "awaitModules" ELSE "done",
                            patternData, reset))
    /\ last' = Did("handleUpdate")
    /\ NoHistory /\ UNCHANGED << ctorVars, headerVars >>
    /\ UNCHANGED << activePattern, userPatterns, nextID, viewVars, toggleVars,
                    envVars, evals >>

\* lines 301-302, up to the await of getRandomTune()
handleShuffle ==
  /\ Len(tasks) < MaxTasks
  /\ tasks' = Append(Touch(tasks, 0),
                     Task("shuffle", "awaitTune", BlankPattern, TRUE))
  /\ last' = Other
  /\ NoHistory /\ UNCHANGED << ctorVars, headerVars >>
  /\ UNCHANGED << docVars, viewVars, toggleVars, envVars, editorCode, evals >>

\* lines 303-307 without line 306: the tune is made active but not viewed
shuffleTuneNotViewed(i) ==
  \E patternData \in Examples :
    /\ tasks[i].pc = "awaitTune"
    /\ activePattern' = patternData.id
    /\ tasks' = Touch([tasks EXCEPT ![i].pc = "awaitModules",
                                    ![i].patternData = patternData], i)
    /\ last' = Step("shuffleTune", "", i, BlankPattern, NoPatterns)
    /\ NoHistory /\ UNCHANGED << ctorVars, headerVars >>
    /\ UNCHANGED << viewingPatternData, userPatterns, nextID, viewVars,
                    toggleVars, envVars, editorCode, evals >>

\* lines 303-307, from the random tune's arrival up to the await of line 279
shuffleTune(i) ==
  \E patternData \in Examples :
    /\ tasks[i].pc = "awaitTune"
    /\ activePattern' = patternData.id
    /\ viewingPatternData' = patternData
    /\ tasks' = Touch([tasks EXCEPT ![i].pc = "awaitModules",
                                    ![i].patternData = patternData], i)
    /\ last' = Step("shuffleTune", "", i, BlankPattern, NoPatterns)
    /\ NoHistory /\ UNCHANGED << ctorVars, headerVars >>
    /\ UNCHANGED << userPatterns, nextID, viewVars, toggleVars, envVars,
                    editorCode, evals >>

\* lines 280-285 without line 282
resetEditorCallsNoHydra ==
  { "resetGlobalEffects", "clearCanvas", "resetLoadedSounds", "setCps", "prebake" }

\* lines 280-285: the calls resetEditor makes once getModule has returned
resetEditorCalls ==
  { "resetGlobalEffects", "clearCanvas", "clearHydra", "resetLoadedSounds",
    "setCps", "prebake" }

\* lines 279-285, from the settling of modulesLoading up to the await of
\* prebake(); a rejected modulesLoading rejects resetEditor at line 279
resetEditor(i) ==
  /\ tasks[i].pc = "awaitModules"
  /\ modulesLoading # "pending"
  /\ IF modulesLoading = "fulfilled"
     THEN /\ tasks' = Touch([tasks EXCEPT ![i].pc = "awaitPrebake",
                                          ![i].invoked = resetEditorCalls], i)
          /\ clearHydraCalls' =
               clearHydraCalls + (IF "clearHydra" \in resetEditorCalls THEN 1 ELSE 0)
     ELSE /\ tasks' = Touch([tasks EXCEPT ![i].pc = "rejectedModules"], i)
          /\ UNCHANGED clearHydraCalls
  /\ last' = Other
  /\ NoHistory /\ UNCHANGED << ctorVars, headerVars >>
  /\ UNCHANGED << docVars, viewVars, envVars, editorCode, evals, stoppedToggles >>

\* line 285 inside a try block with an empty catch: prebake() rejects and the
\* caller goes on to evaluate
prebakeRejectionCaught(i) ==
  /\ tasks[i].pc = "awaitPrebake"
  /\ Len(evals) < MaxEvals
  /\ evals' = Append(evals, [code |-> editorCode, by |-> i])
  /\ tasks' = Touch([tasks EXCEPT ![i].pc = "rejectedPrebake",
                                  ![i].evaluated = tasks[i].evaluated + 1], i)
  /\ last' = Other
  /\ NoHistory /\ UNCHANGED << ctorVars, headerVars >>
  /\ UNCHANGED << docVars, viewVars, toggleVars, envVars, editorCode >>

\* line 285: prebake() rejects, and with it resetEditor and its caller
prebakeRejected(i) ==
  /\ tasks[i].pc = "awaitPrebake"
  /\ tasks' = Touch([tasks EXCEPT ![i].pc = "rejectedPrebake"], i)
  /\ last' = Other
  /\ NoHistory /\ UNCHANGED << ctorVars, headerVars >>
  /\ UNCHANGED << docVars, viewVars, toggleVars, envVars, editorCode, evals >>

\* lines 293 and 297-299: resetEditor has resolved, handleUpdate evaluates
updateEvaluate(i) ==
  /\ tasks[i].pc = "awaitPrebake"
  /\ tasks[i].kind = "update"
  /\ Len(evals) < MaxEvals
  /\ evals' = Append(evals, [code |-> editorCode, by |-> i])
  /\ tasks' = Touch([tasks EXCEPT ![i].pc = "done",
                                  ![i].evaluated = tasks[i].evaluated + 1], i)
  /\ last' = Other
  /\ NoHistory /\ UNCHANGED << ctorVars, headerVars >>
  /\ UNCHANGED << docVars, viewVars, toggleVars, envVars, editorCode >>

\* lines 308-309: resetEditor has resolved, handleShuffle loads and evaluates
shuffleEvaluate(i) ==
  /\ tasks[i].pc = "awaitPrebake"
  /\ tasks[i].kind = "shuffle"
  /\ Len(evals) < MaxEvals
  /\ editorCode' = tasks[i].patternData.code
  /\ evals' = Append(evals, [code |-> tasks[i].patternData.code, by |-> i])
  /\ tasks' = Touch([tasks EXCEPT ![i].pc = "done",
                                  ![i].evaluated = tasks[i].evaluated + 1], i)
  /\ last' = Step("shuffleEvaluate", "", i, BlankPattern, NoPatterns)
  /\ NoHistory /\ UNCHANGED << ctorVars, headerVars >>
  /\ UNCHANGED << docVars, viewVars, toggleVars, envVars >>

TaskStep ==
  \E i \in DOMAIN tasks :
    \/ shuffleTune(i)
    \/ resetEditor(i)
    \/ prebakeRejected(i)
    \/ updateEvaluate(i)
    \/ shuffleEvaluate(i)

Next ==
  \/ AudioUnlock
  \/ ModulesSettle
  \/ EditCode
  \/ afterEval
  \/ EvalError
  \/ handleEvaluate
  \/ handleUpdate
  \/ handleShuffle
  \/ TaskStep

\* the handlers, the evaluations and the promises they wait for
Spec == Init /\ [][Next]_vars

\* the play-state notifications, together with the resets
NextToggle ==
  \/ onToggle
  \/ ModulesSettle
  \/ handleUpdate
  \/ handleShuffle
  \/ TaskStep

SpecToggle == Init /\ [][NextToggle]_vars

\* the state and settings mirrors, together with the single-step handlers
NextView ==
  \/ onUpdateState
  \/ settingsEffect
  \/ handleTogglePlay
  \/ handleEvaluate
  \/ EditCode
  \/ AudioUnlock
  \/ afterEval
  \/ EvalError

SpecView == Init /\ [][NextView]_vars

\* lines 108-124, 250: init() constructs the editor from the output and the
\* clock of lines 105-106
init ==
  /\ editorOptions = << >>
  /\ editorOptions' = << StrudelMirrorOptions(isSyncEnabled, audioEngineTarget) >>
  /\ last' = Did("init")
  /\ NoHistory /\ UNCHANGED << audioEngineTarget, isSyncEnabled, headerVars >>
  /\ UNCHANGED << docVars, viewVars, toggleVars, envVars, editorCode, tasks,
                  evals >>

\* the construction of the editor, with the handlers that tolerate its absence
NextConstruct ==
  \/ init
  \/ settingsEffect
  \/ handleTogglePlay

SpecConstruct == InitConstruct /\ [][NextConstruct]_vars

\* Header.jsx lines 8-20: the session state or a setting changes and Header
\* renders again
renderHeader ==
  \E p \in HeaderProps :
    /\ p # headerProps
    /\ headerProps' = p
    /\ rendered' = Header(p)
    /\ last' = Other
    /\ NoHistory /\ UNCHANGED ctorVars
    /\ UNCHANGED << docVars, viewVars, toggleVars, envVars, editorCode, tasks,
                    evals >>

\* Header.jsx lines 50-54: a click on the logo switches zen mode, unless
\* embedded
clickLogo ==
  /\ ~headerProps.isEmbedded
  /\ headerProps' = [headerProps EXCEPT !.isZen = ~headerProps.isZen]
  /\ rendered' = Header(headerProps')
  /\ last' = Other
  /\ NoHistory /\ UNCHANGED ctorVars
  /\ UNCHANGED << docVars, viewVars, toggleVars, envVars, editorCode, tasks,
                  evals >>

NextHeader ==
  \/ renderHeader
  \/ clickLogo

SpecHeader == InitHeader /\ [][NextHeader]_vars

(***************************************************************************)
(* Properties of the after-evaluate hook.  In the state right after an     *)
(* afterEval, last holds the evaluated code, the viewed data and the user  *)
(* collection the hook found.                                              *)
(***************************************************************************)
AfterEvalOfExample ==
  /\ last.op = "afterEval"
  /\ last.before.collection # UserCollection

AfterEvalOfUser ==
  /\ last.op = "afterEval"
  /\ last.before.collection = UserCollection

\* the user collection is what the hook found, plus one document under newID
OneCreated(newID) ==
  /\ newID \notin DOMAIN last.patternsBefore
  /\ DOMAIN userPatterns = DOMAIN last.patternsBefore \cup {newID}
  /\ \A k \in DOMAIN last.patternsBefore : userPatterns[k] = last.patternsBefore[k]

\* C1: after afterEval with code C on a viewed example whose stored code
\* differs from C, exactly one user document has been created, it carries
\* code C, it is the viewed document and its id is the active pattern.
C1_ChangedExampleForks ==
  (AfterEvalOfExample /\ last.code # last.before.code) =>
    /\ OneCreated(viewingPatternData.id)
    /\ viewingPatternData.id # last.before.id
    /\ userPatterns[viewingPatternData.id] = viewingPatternData
    /\ viewingPatternData.code = last.code
    /\ viewingPatternData.collection = UserCollection
    /\ activePattern = viewingPatternData.id

C1_Witness ==
  /\ AfterEvalOfExample
  /\ last.before = [id |-> -1, code |-> "a", collection |-> ExampleCollection]
  /\ last.code = "b"
  /\ viewingPatternData.id \in DOMAIN userPatterns
  /\ activePattern = viewingPatternData.id

\* C2: after afterEval with code C on a viewed example whose stored code is
\* C, no document has been created or modified, the viewed data is the same
\* and the active pattern is the example's id.
C2_UnchangedExampleKept ==
  (AfterEvalOfExample /\ last.code = last.before.code) =>
    /\ userPatterns = last.patternsBefore
    /\ viewingPatternData = last.before
    /\ activePattern = last.before.id

C2_Witness ==
  /\ AfterEvalOfExample
  /\ last.code = last.before.code
  /\ activePattern = last.before.id
  /\ activePattern < 0

\* what C3 says of the hook's outcome: the document of the viewed id carries
\* code C, the viewed id is the same, no id is new, that id is active
UpdatedInPlace ==
  /\ DOMAIN userPatterns = DOMAIN last.patternsBefore
  /\ last.before.id \in DOMAIN userPatterns
  /\ userPatterns[last.before.id].code = last.code
  /\ \A k \in DOMAIN userPatterns \ {last.before.id} :
       userPatterns[k] = last.patternsBefore[k]
  /\ viewingPatternData = userPatterns[last.before.id]
  /\ activePattern = last.before.id

\* C3 as stated: after afterEval with code C on a viewed user document, the
\* document is updated in place under the same id, and that id is active.
C3_UserAlwaysInPlace == AfterEvalOfUser => UpdatedInPlace

\* C3, amended: that holds when the viewed user document has a valid id;
\* when it has none, one document is created under a fresh id with code C,
\* and it becomes the viewed and the active one.
C3_UserInPlaceOrFreshID ==
  AfterEvalOfUser =>
    IF last.before.id # NoID
    THEN UpdatedInPlace
    ELSE /\ OneCreated(viewingPatternData.id)
         /\ viewingPatternData.id # NoID
         /\ userPatterns[viewingPatternData.id] = viewingPatternData
         /\ viewingPatternData.code = last.code
         /\ viewingPatternData.collection = UserCollection
         /\ activePattern = viewingPatternData.id

C3_Witness ==
  /\ AfterEvalOfUser
  /\ last.before.id # NoID
  /\ last.code # last.before.code
  /\ userPatterns[last.before.id].code = last.code
  /\ activePattern = last.before.id

(***************************************************************************)
(* Properties of reset, update and shuffle.                                *)
(***************************************************************************)
\* the six resets the specification lists for reset()
SixResets ==
  { "resetGlobalEffects", "clearCanvas", "clearHydra", "resetLoadedSounds",
    "setCps", "prebake" }

\* task t has called resetEditor
CalledReset(t) ==
  \/ t.kind = "update" /\ t.reset
  \/ t.kind = "shuffle" /\ t.pc # "awaitTune"

\* C4 as stated: every call of reset invokes all six resets, whatever the
\* state of the module-preload promise: a call that is past its await of
\* that promise has invoked the six.
C4_ResetAlwaysInvokesSix ==
  \A i \in DOMAIN tasks :
    (CalledReset(tasks[i]) /\ tasks[i].pc # "awaitModules") =>
      tasks[i].invoked = SixResets

\* C4, amended: a call of reset invokes all six once the module-preload
\* promise has fulfilled, also when the re-priming it starts then rejects;
\* when the module-preload promise rejects, reset rejects having invoked none.
C4_ResetInvokesSixUnlessModulesReject ==
  \A i \in DOMAIN tasks :
    CalledReset(tasks[i]) =>
      /\ tasks[i].pc \in {"awaitPrebake", "done", "rejectedPrebake"} =>
           tasks[i].invoked = SixResets
      /\ tasks[i].pc = "rejectedModules" =>
           tasks[i].invoked = {} /\ modulesLoading = "rejected"
      /\ tasks[i].pc = "awaitModules" => tasks[i].invoked = {}

C4_Witness ==
  \E i \in DOMAIN tasks :
    /\ tasks[i].pc = "rejectedPrebake"
    /\ tasks[i].invoked = SixResets
    /\ clearHydraCalls = 1

\* the evaluations in flight that task i started
EvalsBy(i) == { k \in DOMAIN evals : evals[k].by = i }

\* C9: update(document, reset) makes the document the viewed one and puts
\* its code in the editor; without reset it neither resets nor evaluates;
\* with reset it evaluates only once the reset has completed, and once.
C9_UpdateResetsThenEvaluates ==
  /\ last.op = "handleUpdate" =>
       /\ viewingPatternData = tasks[Len(tasks)].patternData
       /\ editorCode = tasks[Len(tasks)].patternData.code
  /\ \A i \in DOMAIN tasks :
       tasks[i].kind = "update" =>
         /\ Cardinality(EvalsBy(i)) <= tasks[i].evaluated
         /\ tasks[i].evaluated <= 1
         /\ IF tasks[i].reset
            THEN /\ tasks[i].evaluated = 1 <=> tasks[i].pc = "done"
                 /\ tasks[i].evaluated = 1 => tasks[i].invoked = SixResets
            ELSE /\ tasks[i].pc = "done"
                 /\ tasks[i].invoked = {}
                 /\ tasks[i].evaluated = 0

C9_Witness ==
  \E i \in DOMAIN tasks :
    /\ tasks[i].kind = "update"
    /\ tasks[i].reset
    /\ tasks[i].pc = "done"
    /\ tasks[i].invoked = SixResets
    /\ EvalsBy(i) # {}
    /\ viewingPatternData = tasks[i].patternData

\* C10: shuffle fetches a built-in document, makes it active and viewed,
\* completes a reset, puts the code in the editor and evaluates it, in this
\* order; when nothing else ran in between, the afterEval of that evaluation
\* leaves the document viewed and active and creates no document.
C10_ShuffleOrder ==
  /\ \A i \in DOMAIN tasks :
       tasks[i].kind = "shuffle" =>
         /\ Cardinality(EvalsBy(i)) <= tasks[i].evaluated
         /\ tasks[i].pc = "awaitTune" =>
              /\ tasks[i].patternData = BlankPattern
              /\ tasks[i].invoked = {}
              /\ tasks[i].evaluated = 0
         /\ tasks[i].pc # "awaitTune" => tasks[i].patternData \in Examples
         /\ tasks[i].pc \in {"awaitModules", "rejectedModules"} =>
              tasks[i].invoked = {} /\ tasks[i].evaluated = 0
         /\ tasks[i].pc \in {"awaitPrebake", "rejectedPrebake"} =>
              tasks[i].invoked = SixResets /\ tasks[i].evaluated = 0
         /\ tasks[i].pc = "done" =>
              tasks[i].invoked = SixResets /\ tasks[i].evaluated = 1
  /\ last.op = "shuffleTune" =>
       /\ tasks[last.by].pc = "awaitModules"
       /\ viewingPatternData = tasks[last.by].patternData
       /\ activePattern = tasks[last.by].patternData.id
  /\ last.op = "shuffleEvaluate" =>
       /\ editorCode = tasks[last.by].patternData.code
       /\ \E k \in EvalsBy(last.by) : evals[k].code = editorCode
  /\ (/\ last.op = "afterEval"
      /\ last.by \in DOMAIN tasks
      /\ tasks[last.by].kind = "shuffle"
      /\ tasks[last.by].clean) =>
       /\ last.code = tasks[last.by].patternData.code
       /\ viewingPatternData = tasks[last.by].patternData
       /\ activePattern = tasks[last.by].patternData.id
       /\ userPatterns = last.patternsBefore

C10_Witness ==
  /\ last.op = "afterEval"
  /\ last.by \in DOMAIN tasks
  /\ tasks[last.by].kind = "shuffle"
  /\ tasks[last.by].clean
  /\ tasks[last.by].invoked = SixResets
  /\ viewingPatternData = tasks[last.by].patternData
  /\ activePattern = viewingPatternData.id

(***************************************************************************)
(* Properties of the hooks.                                                *)
(***************************************************************************)
\* C5: the mirrored session state is the empty snapshot until the first
\* onUpdateState, and from then on exactly the last notification; no other
\* action writes it.
C5_MirrorIsLastNotification ==
  IF lastNotification = << >>
  THEN replState = EmptyState
  ELSE /\ DOMAIN replState = DOMAIN lastNotification[1]
       /\ \A f \in DOMAIN replState : replState[f] = lastNotification[1][f]

C5_Witness ==
  /\ lastNotification # << >>
  /\ DOMAIN replState = {"started"}
  /\ replState["started"]
  /\ last.op = "afterEval"

\* C6: the object forwarded to updateSettings holds exactly the recognized
\* keys the observed settings hold, each with the observed value.
C6_OnlyRecognizedForwarded ==
  forwarded # << >> =>
    /\ DOMAIN forwarded[1] = DefaultSettingsKeys \cap DOMAIN settingsStore
    /\ \A k \in DOMAIN forwarded[1] : forwarded[1][k] = settingsStore[k]

C6_Witness ==
  /\ forwarded # << >>
  /\ DOMAIN settingsStore = {"audioEngineTarget", "fontSize"}
  /\ DOMAIN forwarded[1] = {"fontSize"}
  /\ forwarded[1]["fontSize"] = "y"

\* C7: the clearHydra calls made so far are one for each onToggle(false),
\* none for an onToggle(true), and one for each reset that ran.
C7_OneReleasePerStop ==
  clearHydraCalls =
    stoppedToggles
      + Cardinality({ i \in DOMAIN tasks : "clearHydra" \in tasks[i].invoked })

C7_Witness ==
  /\ last.op = "onTogglePlaying"
  /\ stoppedToggles = 1
  /\ clearHydraCalls = 2

\* C8: code has run, and afterEval has been called, only with the
\* audio-readiness promise resolved.
C8_EvaluationAfterAudioReady ==
  last.op \in {"afterEval", "evalError"} => audioReady

C8_Witness ==
  /\ last.op = "afterEval"
  /\ audioReady
  /\ evals = << >>


(***************************************************************************)
(* Properties of the construction of the editor.                           *)
(***************************************************************************)
\* C11: the editor is constructed with the remote control-protocol output
\* exactly when the audio-engine target is osc; that output always comes with
\* the performance-time clock and the local audio output always with the
\* audio-context clock.
C11_OutputAndClockPaired ==
  editorOptions # << >> =>
    LET o == editorOptions[1]
    IN  /\ o.defaultOutput \in {"webaudioOutput", "superdirtOutput"}
        /\ (o.defaultOutput = "superdirtOutput") <=> (audioEngineTarget = "osc")
        /\ (o.defaultOutput = "superdirtOutput")
             => (o.getTime = "getPerformanceTimeSeconds")
        /\ (o.defaultOutput = "webaudioOutput")
             => (o.getTime = "getAudioContextCurrentTime")

\* init() has constructed the editor under the osc target
C11_Witness ==
  /\ last.op = "init"
  /\ audioEngineTarget = "osc"
  /\ editorOptions # << >>
  /\ editorOptions[1].defaultOutput = "superdirtOutput"
  /\ editorOptions[1].getTime = "getPerformanceTimeSeconds"

(***************************************************************************)
(* Properties of the toolbar.                                              *)
(***************************************************************************)
\* the logo spins exactly when started and animation is not disabled
SpinsWhenStarted ==
  rendered.spin <=> (headerProps.started /\ ~headerProps.isCSSAnimationDisabled)

StopOrPlay == IF headerProps.started THEN "stop" ELSE "play"

\* C12, as stated: the logo spins exactly when started and animation is not
\* disabled, the play/stop control shows stop when started and play
\* otherwise, and the update control is dimmed exactly when isDirty is false
\* or there is no active code.
C12_PlayControlFollowsStarted ==
  /\ SpinsWhenStarted
  /\ rendered.play # << >>
  /\ rendered.play[1].icon = StopOrPlay
  /\ rendered.update # << >>
  /\ rendered.update[1].dimmed
       <=> (~headerProps.isDirty \/ headerProps.activeCode = "")

\* C12, amended: the logo spins exactly when started and animation is not
\* disabled; the two controls are rendered exactly when neither zen mode nor
\* the hidden button row is set, and then the play/stop control is titled stop
\* when started and play otherwise, shows that as its icon unless pending,
\* when it reads "loading..." instead, and the update control is dimmed
\* exactly when isDirty is false or there is no active code.
C12_ToolbarRendering ==
  /\ SpinsWhenStarted
  /\ rendered.play # << >>
       <=> (~headerProps.isZen /\ ~headerProps.isButtonRowHidden)
  /\ rendered.update # << >> <=> rendered.play # << >>
  /\ rendered.play # << >> =>
       /\ rendered.play[1].title = StopOrPlay
       /\ ~headerProps.pending => rendered.play[1].icon = StopOrPlay
       /\ headerProps.pending =>
            /\ rendered.play[1].icon = "none"
            /\ rendered.play[1].text = "loading..."
  /\ rendered.update # << >> =>
       (rendered.update[1].dimmed
          <=> (~headerProps.isDirty \/ headerProps.activeCode = ""))

\* started and pending with animation on: the logo spins and the play/stop
\* control reads "loading..."
C12_Witness ==
  /\ headerProps.started
  /\ headerProps.pending
  /\ headerProps.isDirty
  /\ headerProps.activeCode # ""
  /\ rendered.spin
  /\ rendered.play # << >>
  /\ rendered.play[1].text = "loading..."
  /\ ~rendered.update[1].dimmed


(***************************************************************************)
(* Properties of the session-state mirror between notifications.           *)
(***************************************************************************)
\* every field of the last notification has the notified value in the mirror
NotifiedFieldsOverwrite ==
  \A f \in DOMAIN lastNotification[1] :
    f \in DOMAIN replState /\ replState[f] = lastNotification[1][f]

\* C13, as stated: after onUpdateState every field of the notification has
\* overwritten the mirror's field, and every field the mirror had before is
\* still a field of the mirror.
C13_OmittedFieldsKept ==
  lastNotification # << >> =>
    /\ NotifiedFieldsOverwrite
    /\ \A f \in DOMAIN prevReplState : f \in DOMAIN replState

\* C13, amended: after onUpdateState every field of the notification has
\* overwritten the mirror's field, and a field the mirror had before and the
\* notification omits is no longer a field of the mirror.
C13_OmittedFieldsDropped ==
  lastNotification # << >> =>
    /\ NotifiedFieldsOverwrite
    /\ \A f \in DOMAIN prevReplState \ DOMAIN lastNotification[1] :
         f \notin DOMAIN replState

\* a notification without started has reached a mirror that had started, and
\* has changed the isDirty they both have
C13_Witness ==
  /\ lastNotification # << >>
  /\ DOMAIN prevReplState = {"started", "isDirty"}
  /\ DOMAIN lastNotification[1] = {"isDirty"}
  /\ prevReplState["isDirty"] # lastNotification[1]["isDirty"]
  /\ DOMAIN replState = {"isDirty"}

\* C15: a step that changes the mirrored session state is an onUpdateState
\* step, which leaves the notified state in it; calling handleTogglePlay or
\* handleEvaluate leaves the mirror as it was.
C15_OnlyOnUpdateWritesMirror ==
  [][/\ replState' # replState =>
          /\ lastNotification' = << replState' >>
          /\ prevReplState' = replState
     /\ last'.op = "handleTogglePlay" => replState' = replState
     /\ Len(evals') > Len(evals) => replState' = replState]_vars

\* handleTogglePlay has been called with an evaluation requested and the
\* mirror holding the last notification
C15_Witness ==
  /\ last.op = "handleTogglePlay"
  /\ evals # << >>
  /\ "started" \in DOMAIN replState
  /\ lastNotification = << replState >>

(***************************************************************************)
(* Properties of the call order within afterEval.                          *)
(***************************************************************************)
Positions(call) == { k \in 1..Len(effectLog) : effectLog[k] = call }

\* C14: the calls of one afterEval start with the broadcast to the parent
\* frame, the latest code, the location fragment and the document title, in
\* this order; the fork or the in-place update comes after these, a fork
\* exactly for a changed example and an update exactly for a user document;
\* setActivePattern is called once, as the last call.
C14_AfterEvalOrder ==
  last.op = "afterEval" =>
    /\ Len(effectLog) >= 5
    /\ SubSeq(effectLog, 1, 4) =
         << "postMessage", "setLatestCode", "setLocationHash", "setDocumentTitle" >>
    /\ \A k \in Positions("duplicate") \cup Positions("update")
                 \cup Positions("setViewingPatternData") :
         4 < k /\ k < Len(effectLog)
    /\ Positions("duplicate") # {}
         <=> (AfterEvalOfExample /\ last.code # last.before.code)
    /\ Positions("update") # {} <=> AfterEvalOfUser
    /\ Positions("setActivePattern") = {Len(effectLog)}

\* an afterEval has forked a changed example
C14_Witness ==
  /\ last.op = "afterEval"
  /\ AfterEvalOfExample
  /\ Positions("duplicate") # {}
  /\ Positions("setActivePattern") # {}

(***************************************************************************)
(* Properties of a rejected reset.                                         *)
(***************************************************************************)
Rejected == {"rejectedModules", "rejectedPrebake"}

\* C16: a rejected modulesLoading rejects every reset that awaits it, with
\* nothing invoked; a handler whose reset has rejected has started no
\* evaluation, and it stays rejected for good: it pushes no code, evaluates
\* nothing and is not run again.
C16_RejectionPropagates ==
  /\ [](\A i \in DOMAIN tasks :
          /\ modulesLoading = "rejected" =>
               /\ tasks[i].pc \notin {"awaitPrebake", "rejectedPrebake"}
               /\ tasks[i].pc = "done" => ~CalledReset(tasks[i])
          /\ tasks[i].pc = "rejectedModules" =>
               modulesLoading = "rejected" /\ tasks[i].invoked = {}
          /\ tasks[i].pc \in Rejected =>
               tasks[i].evaluated = 0 /\ EvalsBy(i) = {})
  /\ [][\A i \in DOMAIN tasks :
          tasks[i].pc \in Rejected =>
            /\ i \in DOMAIN tasks'
            /\ tasks'[i].pc = tasks[i].pc
            /\ tasks'[i].invoked = tasks[i].invoked
            /\ tasks'[i].evaluated = 0
            /\ last' # last => ~(last'.op = "shuffleEvaluate" /\ last'.by = i)]_vars

\* a shuffle has been rejected by prebake() and the editor does not hold the
\* shuffled code
C16_Witness ==
  \E i \in DOMAIN tasks :
    /\ tasks[i].kind = "shuffle"
    /\ tasks[i].pc = "rejectedPrebake"
    /\ tasks[i].evaluated = 0
    /\ editorCode # tasks[i].patternData.code


(***************************************************************************)
(* Properties of the viewed and the active document.                       *)
(***************************************************************************)
\* C17: in the state right after an afterEval, whatever the viewed document
\* and the code were, the active pattern is the id of the viewed document.
C17_ActiveIsViewedAfterEval ==
  last.op = "afterEval" => activePattern = viewingPatternData.id

\* an afterEval has forked a changed example and the fork is both viewed and
\* active
C17_Witness ==
  /\ AfterEvalOfExample
  /\ last.code # last.before.code
  /\ viewingPatternData.id # last.before.id
  /\ activePattern = viewingPatternData.id

ShuffleEvaluated ==
  /\ last.op = "afterEval"
  /\ last.by \in DOMAIN tasks
  /\ tasks[last.by].kind = "shuffle"

\* C18: when the evaluation a shuffle has started calls afterEval, whatever
\* has run in between, the viewed document is the shuffled document, and the
\* hook creates no user document and changes none.
C18_ShuffleEvaluatesShuffled ==
  ShuffleEvaluated =>
    /\ last.before = tasks[last.by].patternData
    /\ userPatterns = last.patternsBefore

ExampleIDs == { e.id : e \in Examples }

\* C19: no document of the user collection is stored under the id of an
\* example or outside the user collection, and an afterEval that found an
\* example viewed has called no update and has left every stored document as
\* it was.
C19_ExamplesNeverUpdated ==
  /\ \A k \in DOMAIN userPatterns :
       k \notin ExampleIDs /\ userPatterns[k].collection = UserCollection
  /\ AfterEvalOfExample =>
       /\ Positions("update") = {}
       /\ \A k \in DOMAIN last.patternsBefore :
            k \in DOMAIN userPatterns /\ userPatterns[k] = last.patternsBefore[k]

\* an afterEval has found an example viewed, with other code than the
\* example's and with a user document stored already
C19_Witness ==
  /\ AfterEvalOfExample
  /\ last.before.id \in ExampleIDs
  /\ last.code # last.before.code
  /\ last.patternsBefore # NoPatterns
  /\ userPatterns # last.patternsBefore

\* C20: a step that changes the active pattern is an afterEval or the step of
\* a shuffle that has its random document; a handleUpdate step views the
\* given document and loads its code into the editor, and leaves the active
\* pattern as it was.
C20_ActiveWrittenByAfterEvalAndShuffle ==
  [][/\ activePattern' # activePattern => last'.op \in {"afterEval", "shuffleTune"}
     /\ last'.op = "handleUpdate" =>
          /\ activePattern' = activePattern
          /\ editorCode' = viewingPatternData'.code
          /\ tasks'[Len(tasks')].patternData = viewingPatternData']_vars

\* a handleUpdate without reset has left another document viewed than the
\* active one
C20_Witness ==
  /\ last.op = "handleUpdate"
  /\ tasks # << >>
  /\ ~tasks[Len(tasks)].reset
  /\ activePattern # NoID
  /\ activePattern # viewingPatternData.id

====
